---------------------------- MODULE Spec2Model ----------------------------
(***************************************************************************)
(* Model of src/main.py of WaltDub/transcriber: the batch loop             *)
(* process_all_jobs (pull, download, transcribe, summarize, submit) and    *)
(* the pure sanitizer clean_llama_output.                                  *)
(*                                                                         *)
(* Text is modelled as a sequence of tokens.  A token is either a single   *)
(* character ("x" a word character, "nl" a newline, "sp" a space, COMMA)   *)
(* or one of the fixed multi-character strings the code searches for or    *)
(* builds (TRUNC, RESUME, ENDM, HEAD, TAIL, PLACEHOLDER).  No token's      *)
(* characters can start inside another token of these strings, so a        *)
(* substring search on the characters finds exactly the occurrences the    *)
(* search on the tokens finds.                                             *)
(***************************************************************************)
EXTENDS Integers, Sequences, FiniteSets, TLC

VARIABLES
    pc,          \* position of the process: start, pull, begin, download, ...
    env,         \* the environment variables that are set (lines 9-10)
    job,         \* the value get_next_job returned (line 225)
    jobs,        \* one record per job instance pulled so far, in pull order
    files,       \* DOWNLOAD_DIR: the names <<row, suffix>> of the files in it
    txt,         \* row -> content of meeting_<row>.txt (<<>> while it is absent)
    duration,    \* duration of the current job's audio (seconds), 0 if none
    transcript,  \* local `transcript` of process_all_jobs (line 237)
    summary,     \* local `summary` of process_all_jobs (line 238)
    post,        \* the POST request of submit_results in flight, or None
    fatal,       \* why the process died: none, config, pull, keyerror
    sanPc,       \* sanitizer harness: init, once, twice
    sanRaw,      \* sanitizer harness: raw engine output
    sanPrompt,   \* sanitizer harness: prompt
    sanOnce,     \* clean_llama_output(sanRaw, sanPrompt)
    sanTwice     \* clean_llama_output(sanOnce, sanPrompt)

pipeVars == <<pc, env, job, jobs, files, txt, duration, transcript, summary, post, fatal>>
sanVars == <<sanPc, sanRaw, sanPrompt, sanOnce, sanTwice>>
vars == <<pc, env, job, jobs, files, txt, duration, transcript, summary, post, fatal,
          sanPc, sanRaw, sanPrompt, sanOnce, sanTwice>>

---------------------------------------------------------------------------
(* Bounds of the model *)

MaxJobs == 2
MaxNoise == 1
MaxRaw == 4
MaxPrompt == 2

\* the row numbers the backend hands out
Rows == {1, 2}

---------------------------------------------------------------------------
(* Tokens *)

TRUNC == "(truncated)"
RESUME == "Resume (skriv kun paa dansk"
COMMA == ","
ENDM == "[ Prompt:"
HEAD == "Du er en assistent ... Transskription:"
TAIL == " men behold engelske ... problem solution tree):"
PLACEHOLDER == "... [truncated]"

Whitespace == {"nl", "sp"}

RECURSIVE StrUpTo(_, _)
StrUpTo(S, n) ==
    IF n = 0 THEN {<<>>}
    ELSE LET shorter == StrUpTo(S, n - 1)
         IN shorter \cup {Append(s, t) : s \in shorter, t \in S}

---------------------------------------------------------------------------
(* String primitives, as Python computes them *)

\* sub occurs in s starting at (1-based) position i
IsAt(sub, s, i) ==
    /\ i >= 1
    /\ i + Len(sub) - 1 <= Len(s)
    /\ \A k \in 1..Len(sub) : s[i + k - 1] = sub[k]

\* `sub in s`
Occurs(sub, s) == \E i \in 1..(Len(s) + 1) : IsAt(sub, s, i)

\* s.find(sub) + 1: the first occurrence, 0 when there is none
Find(sub, s) ==
    IF Occurs(sub, s)
    THEN CHOOSE i \in 1..(Len(s) + 1) :
            /\ IsAt(sub, s, i)
            /\ \A j \in 1..(i - 1) : ~IsAt(sub, s, j)
    ELSE 0

\* s[i-1:] of Python for a 1-based i
From(s, i) == SubSeq(s, i, Len(s))

\* s.replace(old, ""): the non-overlapping occurrences, left to right
RECURSIVE Remove(_, _)
Remove(s, old) ==
    IF old = <<>> \/ s = <<>> THEN s
    ELSE IF IsAt(old, s, 1) THEN Remove(From(s, Len(old) + 1), old)
    ELSE <<Head(s)>> \o Remove(Tail(s), old)

RECURSIVE LStrip(_)
LStrip(s) ==
    IF s # <<>> /\ Head(s) \in Whitespace THEN LStrip(Tail(s)) ELSE s

RECURSIVE RStrip(_)
RStrip(s) ==
    IF s # <<>> /\ s[Len(s)] \in Whitespace THEN RStrip(SubSeq(s, 1, Len(s) - 1)) ELSE s

\* s.strip()
Strip(s) == RStrip(LStrip(s))

---------------------------------------------------------------------------
(* clean_llama_output, phase by phase (lines 119-159) *)

\* lines 131-132: remove the prompt echo
RemovePrompt(text, prompt) ==
    IF Occurs(prompt, text) THEN Remove(text, prompt) ELSE text

start_marker1 == <<TRUNC>>
start_prefixes == << <<RESUME>>, <<RESUME, COMMA>> >>
end_marker == <<ENDM>>

\* the text after the occurrence of marker that the code cuts at (text.find)
CutAt(text, marker) == From(text, Find(marker, text) + Len(marker))

\* lines 142-151: cut everything up to and including the start marker
CutStart(text) ==
    IF Occurs(start_marker1, text) THEN CutAt(text, start_marker1)
    ELSE IF \E k \in 1..Len(start_prefixes) : Occurs(start_prefixes[k], text)
         THEN LET k == CHOOSE k \in 1..Len(start_prefixes) :
                          /\ Occurs(start_prefixes[k], text)
                          /\ \A j \in 1..(k - 1) : ~Occurs(start_prefixes[j], text)
              IN CutAt(text, start_prefixes[k])
         ELSE text

\* lines 154-157: cut everything from the end marker onward
CutEnd(text) ==
    IF Occurs(end_marker, text) THEN SubSeq(text, 1, Find(end_marker, text) - 1)
    ELSE text

clean_llama_output(raw, prompt) ==
    Strip(CutEnd(CutStart(RemovePrompt(raw, prompt))))

---------------------------------------------------------------------------
(* summarize_with_llama: the prompt (lines 166-175) *)

ShortenWidth == 6000
PlaceholderLen == 15

\* runs of whitespace become one space (textwrap.shorten normalises first)
RECURSIVE Collapse(_)
Collapse(s) ==
    IF s = <<>> THEN <<>>
    ELSE IF Head(s) \in Whitespace
         THEN IF Tail(s) # <<>> /\ Head(Tail(s)) \in Whitespace
              THEN Collapse(Tail(s))
              ELSE <<"sp">> \o Collapse(Tail(s))
         ELSE <<Head(s)>> \o Collapse(Tail(s))

\* textwrap.shorten(transcript, width=6000, placeholder="... [truncated]"),
\* for words shorter than the width: the text if it fits, else the longest
\* run of whole words that fits together with the placeholder
Shorten(text) ==
    LET c == Collapse(Strip(text))
        Fits(n) == /\ n + PlaceholderLen <= ShortenWidth
                   /\ \/ n = 0
                      \/ c[n] \notin Whitespace /\ c[n + 1] \in Whitespace
    IN IF Len(c) <= ShortenWidth THEN c
       ELSE LET n == CHOOSE n \in 0..(Len(c) - 1) :
                        /\ Fits(n)
                        /\ \A m \in (n + 1)..(Len(c) - 1) : ~Fits(m)
            IN SubSeq(c, 1, n) \o <<PLACEHOLDER>>

\* lines 168-175
Prompt(transcriptText) ==
    <<HEAD, "nl">> \o Shorten(transcriptText) \o <<"nl", "nl", RESUME, COMMA, TAIL, "nl">>

---------------------------------------------------------------------------
(* Values of the pipeline *)

RequiredEnv == {"API_SECRET", "APPSCRIPT_URL"}

\* the JSON bodies the backend may answer a pull with: the keys present and
\* the value of "row"; no key at all stands for null and {}
Responses ==
    {[keys |-> {}, row |-> 0], [keys |-> {"sourcefile"}, row |-> 0]}
    \cup {[keys |-> K, row |-> r] : K \in {{"row"}, {"row", "sourcefile"}}, r \in Rows}

NoJob == [keys |-> {}, row |-> 0]
NoPost == [row |-> 0, transcript |-> <<>>, summary |-> <<>>]

\* durations (seconds) of the audio a job may point to
Durations == {900, 3600}

\* what whisper may write to its -otxt artifact: nothing, only whitespace,
\* one word, two paragraphs
Artifacts == {<<>>, <<"nl">>, <<"x", "nl">>, <<"x", "nl", "nl", "x">>}

\* what llama-cli may print: noise, with or without an echo of the prompt
\* somewhere in it
NoiseTokens == {"x", "nl", TRUNC, RESUME, ENDM}
Stdouts(prompt) ==
    LET noise == StrUpTo(NoiseTokens, MaxNoise)
    IN noise \cup UNION {{SubSeq(n, 1, k) \o prompt \o SubSeq(n, k + 1, Len(n)) :
                             k \in 0..Len(n)} : n \in noise}

StageOrder == <<"download", "transcribe", "summarize", "submit">>

NewJob(r) ==
    [row |-> r, state |-> "Fetched", trace |-> <<>>, ok |-> {},
     failedAt |-> "none", cause |-> "none", errors |-> 0]

cur == Len(jobs)
curRow == jobs[cur].row

\* a stage function is called
Enter(stage) == [jobs EXCEPT ![cur].trace = Append(@, stage)]
\* ... and returns normally
Return(js, stage) == [js EXCEPT ![cur].ok = @ \cup {stage}]

---------------------------------------------------------------------------
(* The pipeline *)

Init ==
    /\ pc = "start"
    /\ env \in SUBSET RequiredEnv
    /\ job = NoJob
    /\ jobs = <<>>
    /\ files = {}
    /\ txt = [r \in Rows |-> <<>>]
    /\ duration = 0
    /\ transcript = <<>>
    /\ summary = <<>>
    /\ post = NoPost
    /\ fatal = "none"
    /\ sanPc = "idle"
    /\ sanRaw = <<>>
    /\ sanPrompt = <<>>
    /\ sanOnce = <<>>
    /\ sanTwice = <<>>

\* lines 9-25: module import reads the configuration
Startup ==
    /\ pc = "start"
    /\ IF RequiredEnv \subseteq env
       THEN pc' = "pull" /\ fatal' = "none"
       ELSE pc' = "crashed" /\ fatal' = "config"
    /\ UNCHANGED <<env, job, jobs, files, txt, duration, transcript, summary, post>>
    /\ UNCHANGED sanVars

\* lines 28-34
get_next_job(resp) ==
    IF resp.keys # {} /\ "row" \in resp.keys THEN resp ELSE NoJob

\* lines 224-229: pull; an exception of get_next_job is not caught
Pull ==
    /\ pc = "pull"
    /\ \/ /\ pc' = "crashed"
          /\ fatal' = "pull"
          /\ UNCHANGED <<job, jobs>>
       \/ \E resp \in Responses :
            /\ "row" \in resp.keys => Len(jobs) < MaxJobs
            /\ job' = get_next_job(resp)
            /\ IF job' = NoJob
               THEN pc' = "exited" /\ UNCHANGED jobs
               ELSE pc' = "begin" /\ jobs' = Append(jobs, NewJob(job'.row))
            /\ UNCHANGED fatal
    /\ UNCHANGED <<env, files, txt, duration, transcript, summary, post>>
    /\ UNCHANGED sanVars

\* lines 231-233: outside the try block
Begin ==
    /\ pc = "begin"
    /\ IF "sourcefile" \in job.keys
       THEN /\ pc' = "download"
            /\ jobs' = [jobs EXCEPT ![cur].state = "Processing"]
            /\ UNCHANGED fatal
       ELSE /\ pc' = "crashed"
            /\ fatal' = "keyerror"
            /\ UNCHANGED jobs
    /\ UNCHANGED <<env, job, files, txt, duration, transcript, summary, post>>
    /\ UNCHANGED sanVars

\* a mutant: the stage's error is logged where it happens and the pipeline goes on
ExceptSwallow(js, stage, cause) ==
    /\ jobs' = [js EXCEPT ![cur].state = "Failed", ![cur].failedAt = stage,
                          ![cur].cause = cause, ![cur].errors = @ + 1]
    /\ pc' = IF stage = "submit" THEN "sleep"
             ELSE StageOrder[(CHOOSE k \in 1..4 : StageOrder[k] = stage) + 1]

\* a mutant: the failed stage is run again
ExceptRetry(js, stage, cause) ==
    /\ jobs' = [js EXCEPT ![cur].failedAt = stage,
                          ![cur].cause = cause, ![cur].errors = @ + 1]
    /\ pc' = stage

\* lines 241-244: the job boundary; the error is printed, then the sleep
Except(js, stage, cause) ==
    /\ jobs' = [js EXCEPT ![cur].state = "Failed", ![cur].failedAt = stage,
                          ![cur].cause = cause, ![cur].errors = @ + 1]
    /\ pc' = "sleep"

\* lines 51-78 called at line 236: gdown, the ffmpeg probe, the conversion.
\* gdown either writes the raw file, raises, or (older releases) reports the
\* failure and returns None; the probe's status is ignored; the conversion
\* runs with check=True and the raw file is unlinked only after it.
Download ==
    /\ pc = "download"
    /\ LET js == Enter("download")
           raw == <<curRow, "input">>
           wav == <<curRow, "wav">>
       IN \E g \in {"ok", "raise", "quiet"}, decodable \in BOOLEAN, d \in Durations :
            IF g = "raise"
            THEN /\ Except(js, "download", "gdown")
                 /\ UNCHANGED <<files, duration>>
            ELSE LET got == IF g = "ok" THEN files \cup {raw} ELSE files
                 IN IF raw \in got /\ decodable
                    THEN /\ files' = (got \cup {wav}) \ {raw}
                         /\ duration' = d
                         /\ jobs' = Return(js, "download")
                         /\ pc' = "transcribe"
                    ELSE /\ files' = got
                         /\ Except(js, "download", "ffmpeg")
                         /\ UNCHANGED duration
    /\ UNCHANGED <<env, job, txt, transcript, summary, post, fatal>>
    /\ UNCHANGED sanVars

\* lines 80-115 called at line 237: whisper exits nonzero, or exits zero
\* having written its artifact at meeting_<row>.txt or not
Transcribe ==
    /\ pc = "transcribe"
    /\ LET js == Enter("transcribe")
           name == <<curRow, "txt">>
       IN \/ /\ Except(js, "transcribe", "whisper_exit")
             /\ UNCHANGED <<files, txt, transcript>>
          \/ \E wrote \in BOOLEAN, content \in Artifacts :
               /\ wrote \/ content = <<>>
               /\ files' = IF wrote THEN files \cup {name} ELSE files
               /\ txt' = IF wrote THEN [txt EXCEPT ![curRow] = content] ELSE txt
               /\ IF name \notin files'
                  THEN /\ Except(js, "transcribe", "no_transcript_file")
                       /\ UNCHANGED transcript
                  ELSE /\ transcript' = Strip(txt'[curRow])
                       /\ jobs' = Return(js, "transcribe")
                       /\ pc' = "summarize"
    /\ UNCHANGED <<env, job, duration, summary, post, fatal>>
    /\ UNCHANGED sanVars

\* lines 162-205 called at line 238: llama-cli times out, exits nonzero, or
\* prints; whatever clean_llama_output makes of the print is returned
Summarize ==
    /\ pc = "summarize"
    /\ LET js == Enter("summarize")
           prompt == Prompt(transcript)
       IN \/ /\ Except(js, "summarize", "llama_timeout")
             /\ UNCHANGED summary
          \/ /\ Except(js, "summarize", "llama_exit")
             /\ UNCHANGED summary
          \/ \E stdout \in Stdouts(prompt) :
               /\ summary' = clean_llama_output(stdout, prompt)
               /\ jobs' = Return(js, "summarize")
               /\ pc' = "submit"
    /\ UNCHANGED <<env, job, files, txt, duration, transcript, post, fatal>>
    /\ UNCHANGED sanVars

\* lines 208-217 called at line 239: the request is sent
SubmitSend ==
    /\ pc = "submit"
    /\ jobs' = Enter("submit")
    /\ post' = [row |-> curRow, transcript |-> transcript, summary |-> summary]
    /\ pc' = "response"
    /\ UNCHANGED <<env, job, files, txt, duration, transcript, summary, fatal>>
    /\ UNCHANGED sanVars

\* lines 217-218, 240: the answer arrives; raise_for_status or the timeout raise
SubmitResponse ==
    /\ pc = "response"
    /\ post' = NoPost
    /\ \/ /\ jobs' = [Return(jobs, "submit") EXCEPT ![cur].state = "Completed"]
          /\ pc' = "sleep"
       \/ Except(jobs, "submit", "http")
    /\ UNCHANGED <<env, job, files, txt, duration, transcript, summary, fatal>>
    /\ UNCHANGED sanVars

\* line 244 and the loop back to line 223; the locals of the iteration are dead
Sleep ==
    /\ pc = "sleep"
    /\ pc' = "pull"
    /\ job' = NoJob
    /\ duration' = 0
    /\ transcript' = <<>>
    /\ summary' = <<>>
    /\ UNCHANGED <<env, jobs, files, txt, post, fatal>>
    /\ UNCHANGED sanVars

Next ==
    \/ Startup
    \/ Pull
    \/ Begin
    \/ Download
    \/ Transcribe
    \/ Summarize
    \/ SubmitSend
    \/ SubmitResponse
    \/ Sleep

Spec == Init /\ [][Next]_vars

---------------------------------------------------------------------------
(* The sanitizer on its own: inputs drawn at the start, applied twice *)

SanTokens == {"x", "nl", TRUNC, RESUME, COMMA, ENDM}
SanPromptTokens == {"x", TRUNC}

SanInit ==
    /\ pc = "start"
    /\ env = RequiredEnv
    /\ job = NoJob
    /\ jobs = <<>>
    /\ files = {}
    /\ txt = [r \in Rows |-> <<>>]
    /\ duration = 0
    /\ transcript = <<>>
    /\ summary = <<>>
    /\ post = NoPost
    /\ fatal = "none"
    /\ sanPc = "init"
    /\ sanRaw \in StrUpTo(SanTokens, MaxRaw)
    /\ sanPrompt \in StrUpTo(SanPromptTokens, MaxPrompt) \ {<<>>}
    /\ sanOnce = <<>>
    /\ sanTwice = <<>>

SanFirst ==
    /\ sanPc = "init"
    /\ sanOnce' = clean_llama_output(sanRaw, sanPrompt)
    /\ sanPc' = "once"
    /\ UNCHANGED <<sanRaw, sanPrompt, sanTwice>>
    /\ UNCHANGED pipeVars

SanSecond ==
    /\ sanPc = "once"
    /\ sanTwice' = clean_llama_output(sanOnce, sanPrompt)
    /\ sanPc' = "twice"
    /\ UNCHANGED <<sanRaw, sanPrompt, sanOnce>>
    /\ UNCHANGED pipeVars

SanNext ==
    \/ SanFirst
    \/ SanSecond

SanSpec == SanInit /\ [][SanNext]_vars

---------------------------------------------------------------------------
(* Helpers of the properties *)

Range(f) == {f[i] : i \in DOMAIN f}
IsPrefix(s, t) == Len(s) <= Len(t) /\ s = SubSeq(t, 1, Len(s))
Count(s, v) == Cardinality({i \in DOMAIN s : s[i] = v})
Finished(j) == j.state \in {"Completed", "Failed"}
EarlyStages == {"download", "transcribe", "summarize"}

\* the segment size of the specified Segmenter and its segment count
SegmentSize == 1800
SegmentCount(d) == (d + SegmentSize - 1) \div SegmentSize

\* the blank-line separators in a text
Separators(s) == Cardinality({i \in 1..(Len(s) - 1) : s[i] = "nl" /\ s[i + 1] = "nl"})

\* s.rfind(sub) + 1: the last occurrence, 0 when there is none
FindLast(sub, s) ==
    IF Occurs(sub, s)
    THEN CHOOSE i \in 1..(Len(s) + 1) :
            /\ IsAt(sub, s, i)
            /\ \A j \in (i + 1)..(Len(s) + 1) : ~IsAt(sub, s, j)
    ELSE 0

\* what the text keeps when cut after the LAST occurrence of the first
\* start marker (in the code's order) that occurs in it
StartMarkers == <<start_marker1>> \o start_prefixes
KeepAfterLast(text) ==
    IF \E k \in 1..Len(StartMarkers) : Occurs(StartMarkers[k], text)
    THEN LET k == CHOOSE k \in 1..Len(StartMarkers) :
                     /\ Occurs(StartMarkers[k], text)
                     /\ \A j \in 1..(k - 1) : ~Occurs(StartMarkers[j], text)
             m == StartMarkers[k]
         IN From(text, FindLast(m, text) + Len(m))
    ELSE text

---------------------------------------------------------------------------
(* Properties *)

\* C1: all-or-nothing submission.  For every job pulled: if download,
\* transcription or summarization failed, submit_results was never called for
\* it and exactly one error is recorded for it; submit_results is called only
\* after download, transcription and summarization of the same job have all
\* returned normally, and the request carries that job's row.
C1_AllOrNothing ==
    /\ \A i \in DOMAIN jobs :
         LET j == jobs[i]
         IN /\ j.failedAt \in EarlyStages =>
                  "submit" \notin Range(j.trace) /\ j.errors = 1
            /\ "submit" \in Range(j.trace) =>
                  /\ EarlyStages \subseteq j.ok
                  /\ SubSeq(j.trace, 1, 3) = SubSeq(StageOrder, 1, 3)
            /\ j.state = "Failed" <=> j.errors = 1
            /\ j.state # "Failed" => j.errors = 0
    /\ post # NoPost => "submit" \in Range(jobs[cur].trace) /\ post.row = curRow

\* C1 witness: one job failed at transcription with its single error and no
\* submission, and another was submitted and completed.
C1_Witness ==
    /\ \E i \in DOMAIN jobs :
         /\ jobs[i].failedAt = "transcribe"
         /\ jobs[i].errors = 1
         /\ "submit" \notin Range(jobs[i].trace)
    /\ \E i \in DOMAIN jobs : jobs[i].state = "Completed"

\* C2: a job failure never terminates the process.  Once a job has been
\* pulled, the process never dies while that job is still unrecorded (neither
\* Completed nor Failed): every error of its handling is caught and recorded.
C2_JobFailureNeverFatal ==
    (pc = "crashed" /\ jobs # <<>>) => Finished(jobs[cur])

\* C3: transient files are deleted on every exit path.  Whenever a job has
\* ended, none of meeting_<row>.input, meeting_<row>.wav and
\* meeting_<row>.txt exists.
C3_TransientFilesDeleted ==
    \A i \in DOMAIN jobs :
        Finished(jobs[i]) =>
            \A suffix \in {"input", "wav", "txt"} : <<jobs[i].row, suffix>> \notin files

\* C4: an empty sanitized summary is a failure, never a result.
\* summarize_with_llama never returns the empty summary, and no request with
\* an empty summary is sent.
C4_EmptySummaryIsFailure ==
    /\ pc = "submit" => summary # <<>>
    /\ post # NoPost => post.summary # <<>>

\* C5: transcribe_with_whisper fails hard on every bad engine outcome.  It
\* never returns an empty transcript, and no request with an empty transcript
\* is sent.
C5_WhisperFailsHard ==
    /\ pc = "summarize" => transcript # <<>>
    /\ post # NoPost => post.transcript # <<>>

\* C6: the sanitizer is idempotent: applying clean_llama_output to its own
\* output, with the same prompt, changes nothing.
C6_Idempotent ==
    sanPc = "twice" => sanTwice = sanOnce

\* C7: start-of-payload detection keeps everything after the LAST occurrence
\* of the first start marker that occurs, and the whole text if none occurs
\* (before the end marker is cut and the result stripped).
C7_KeepsAfterLastOccurrence ==
    sanPc # "init" =>
        sanOnce = Strip(CutEnd(KeepAfterLast(RemovePrompt(sanRaw, sanPrompt))))

\* C8: per-job fan-out counts.  A submitted job of duration D has made
\* N = ceil(D/S) transcription calls, N summarization calls and one
\* consolidation call exactly when N > 1, and its transcript holds N-1
\* blank-line separators.
C8_FanOutCounts ==
    (pc = "sleep" /\ jobs[cur].state = "Completed") =>
        LET N == SegmentCount(duration)
            t == jobs[cur].trace
        IN /\ Count(t, "transcribe") = N
           /\ Count(t, "summarize") = N
           /\ Count(t, "consolidate") = (IF N > 1 THEN 1 ELSE 0)
           /\ Separators(transcript) = N - 1

\* C9: each job instance moves linearly and is never revisited.  The stages
\* invoked for a job are always a prefix of download, transcription,
\* summarization, submission (each at most once, in that order); its state
\* only moves Fetched -> Processing -> Completed or Failed; and once it is
\* Completed or Failed its record never changes again (no stage is re-run
\* after an engine error or the summarization timeout).
C9_LinearNoRevisit ==
    /\ [](\A i \in DOMAIN jobs :
            /\ IsPrefix(jobs[i].trace, StageOrder)
            /\ i < cur => Finished(jobs[i]))
    /\ [][\A i \in DOMAIN jobs :
            /\ i \in DOMAIN jobs'
            /\ Finished(jobs[i]) => jobs'[i] = jobs[i]
            /\ jobs'[i].state # jobs[i].state =>
                 \/ jobs[i].state = "Fetched" /\ jobs'[i].state = "Processing"
                 \/ jobs[i].state = "Processing" /\ Finished(jobs'[i])]_vars

\* C9 witness: a job whose summarization timed out stays Failed with
\* download, transcription and summarization invoked once each, while the
\* loop has gone on to a later job.
C9_Witness ==
    \E i \in DOMAIN jobs :
        /\ i < cur
        /\ jobs[i].cause = "llama_timeout"
        /\ jobs[i].state = "Failed"
        /\ jobs[i].trace = <<"download", "transcribe", "summarize">>
        /\ jobs[cur].state = "Completed"

\* C10: drain termination.  Leaving aside missing configuration and a pull
\* that does not return, the process stops only by leaving the loop after an
\* empty pull, with every pulled job Completed or Failed.
C10_StopsOnlyWhenDrained ==
    (pc \in {"exited", "crashed"} /\ fatal \notin {"config", "pull"}) =>
        /\ pc = "exited"
        /\ job = NoJob
        /\ \A i \in DOMAIN jobs : Finished(jobs[i])

=============================================================================
